---- MODULE Spec2Model ----
\* CSS selector builder of src/src/05-objects-tasks.js: the MyElement class,
\* the cssSelectorBuilder facade and the objects they construct.
EXTENDS Integers, Sequences, FiniteSets, TLC

VARIABLES heap, last
vars == <<heap, last>>

\* ---------------------------------------------------------------- bounds
\* Largest number of objects (fragments and combined selectors) constructed.
MaxObjs == 3

\* Inputs of the calls.
Values == {"a"}
Combinators == {" ", "+"}

\* ---------------------------------------------------------------- constants
\* `parent` of a fragment built by the facade (third constructor argument
\* omitted), and the result of a call that threw.
Undefined == 0
\* `this.child = {}`: the empty object every fragment starts with as child.
EmptyObject == -1

Types == {"elem", "id", "class", "attr", "pseudoClass", "pseudoElement"}

validError == "Element, id and pseudo-element should not occur more then one time inside the selector"
partsError == "Selector parts should be arranged in the following order: element, id, class, attribute, pseudo-class, pseudo-element"
\* Calling a method of `undefined`.
TypeError == "TypeError"
NoError == "none"

\* ---------------------------------------------------------------- MyElement
\* constructor(value, type, parent)
MyElement(value, type, parent) ==
  [ cls    |-> "MyElement",
    type   |-> type,
    value  |-> value,
    sym    |-> CASE type = "id" -> "#"
                 [] type = "class" -> "."
                 [] type = "attr" -> "["
                 [] type = "pseudoClass" -> ":"
                 [] type = "pseudoElement" -> "::"
                 [] OTHER -> "",
    end    |-> IF type = "attr" THEN "]" ELSE "",
    child  |-> EmptyObject,
    parent |-> parent ]

\* Outcome of a method call: the heap after it, the returned reference (or the
\* returned string in out), and the message of the error thrown, if any.
Throw(h, msg) == [heap |-> h, ret |-> Undefined, out |-> "", err |-> msg]
Return(h, ref) == [heap |-> h, ret |-> ref, out |-> "", err |-> NoError]

\* Variant: the call also overwrites the receiver's own value.
NewChild_overwritesValue(h, self, val, type) ==
  LET new == Len(h) + 1
  IN Return([Append(h, MyElement(val, type, self))
               EXCEPT ![self].child = new, ![self].value = val \o val], new)

\* `this.child = new MyElement(val, type, this); return this.child;`
NewChild(h, self, val, type) ==
  LET new == Len(h) + 1
  IN Return([Append(h, MyElement(val, type, self)) EXCEPT ![self].child = new], new)

\* Variant: every element() call reports a duplicate.
MyElement_element_alwaysDuplicate(h, self, val) == Throw(h, validError)

\* element(): both tests throw, `return this.type` is never reached.
MyElement_element(h, self, val) ==
  IF h[self].type = "elem" THEN Throw(h, validError)
  ELSE IF h[self].type # "elem" THEN Throw(h, partsError)
  ELSE [heap |-> h, ret |-> Undefined, out |-> h[self].type, err |-> NoError]

MyElement_id(h, self, val) ==
  IF h[self].type = "id" THEN Throw(h, validError)
  ELSE IF h[self].type # "elem" THEN Throw(h, partsError)
  ELSE NewChild(h, self, val, "id")

\* Variant: the order test forgets the attribute kind.
MyElement_class_afterAttr(h, self, val) ==
  IF h[self].type \in {"pseudoClass", "pseudoElement"} THEN Throw(h, partsError)
  ELSE NewChild(h, self, val, "class")

MyElement_class(h, self, val) ==
  IF h[self].type \in {"attr", "pseudoClass", "pseudoElement"} THEN Throw(h, partsError)
  ELSE NewChild(h, self, val, "class")

\* Variant: no order test at all.
MyElement_attr_unordered(h, self, val) == NewChild(h, self, val, "attr")

MyElement_attr(h, self, val) ==
  IF h[self].type \in {"pseudoClass", "pseudoElement"} THEN Throw(h, partsError)
  ELSE NewChild(h, self, val, "attr")

\* Variant: the child is constructed before the order test throws.
MyElement_pseudoClass_lateThrow(h, self, val) ==
  IF h[self].type = "pseudoElement"
  THEN Throw(NewChild(h, self, val, "pseudoClass").heap, partsError)
  ELSE NewChild(h, self, val, "pseudoClass")

MyElement_pseudoClass(h, self, val) ==
  IF h[self].type = "pseudoElement" THEN Throw(h, partsError)
  ELSE NewChild(h, self, val, "pseudoClass")

\* Variant: no duplicate test.
MyElement_pseudoElement_repeatable(h, self, val) == NewChild(h, self, val, "pseudoElement")

MyElement_pseudoElement(h, self, val) ==
  IF h[self].type = "pseudoElement" THEN Throw(h, validError)
  ELSE NewChild(h, self, val, "pseudoElement")

\* A rendering: the string returned, or the error thrown on the way.
Str(s) == [out |-> s, err |-> NoError]

RECURSIVE CallStringify(_, _)

\* Variant: the fragment's own rendering is put before its predecessors'.
MyElement_stringify_reversed(h, self) ==
  LET par == IF h[self].parent # Undefined
             THEN CallStringify(h, h[self].parent)
             ELSE Str("")
  IN IF par.err # NoError THEN par
     ELSE Str(h[self].sym \o h[self].value \o h[self].end \o par.out)

\* Variant: the recursion follows `child` where it should follow `parent`.
MyElement_stringify_followsChild(h, self) ==
  LET par == IF h[self].child # EmptyObject
             THEN CallStringify(h, h[self].child)
             ELSE Str("")
  IN IF par.err # NoError THEN par
     ELSE Str(par.out \o h[self].sym \o h[self].value \o h[self].end)

\* stringify() of a fragment.
MyElement_stringify(h, self) ==
  LET par == IF h[self].parent # Undefined
             THEN CallStringify(h, h[self].parent)
             ELSE Str("")
  IN IF par.err # NoError THEN par
     ELSE Str(par.out \o h[self].sym \o h[self].value \o h[self].end)

\* Variant: the combinator is rendered without the surrounding spaces.
combine_stringify_noSpaces(h, self) ==
  LET s1 == CallStringify(h, h[self].selector1)
      s2 == CallStringify(h, h[self].selector2)
  IN IF s1.err # NoError THEN s1
     ELSE IF s2.err # NoError THEN s2
     ELSE Str(s1.out \o h[self].combinator \o s2.out)

\* stringify() of the object combine returns.
combine_stringify(h, self) ==
  LET s1 == CallStringify(h, h[self].selector1)
      s2 == CallStringify(h, h[self].selector2)
  IN IF s1.err # NoError THEN s1
     ELSE IF s2.err # NoError THEN s2
     ELSE Str(s1.out \o " " \o h[self].combinator \o " " \o s2.out)

\* `x.stringify()`: the method of the object x refers to; a TypeError when x
\* is undefined.
CallStringify(h, ref) ==
  IF ref \notin DOMAIN h THEN [out |-> "", err |-> TypeError]
  ELSE IF h[ref].cls = "MyElement" THEN MyElement_stringify(h, ref)
  ELSE combine_stringify(h, ref)

\* ---------------------------------------------------------------- facade
builder_element(h, value) == Return(Append(h, MyElement(value, "elem", Undefined)), Len(h) + 1)
builder_id(h, value) == Return(Append(h, MyElement(value, "id", Undefined)), Len(h) + 1)
builder_class(h, value) == Return(Append(h, MyElement(value, "class", Undefined)), Len(h) + 1)
builder_attr(h, value) == Return(Append(h, MyElement(value, "attr", Undefined)), Len(h) + 1)
builder_pseudoClass(h, value) == Return(Append(h, MyElement(value, "pseudoClass", Undefined)), Len(h) + 1)
builder_pseudoElement(h, value) == Return(Append(h, MyElement(value, "pseudoElement", Undefined)), Len(h) + 1)

\* combine: an object holding only a stringify closure over its arguments.
builder_combine(h, selector1, combinator, selector2) ==
  Return(Append(h, [cls |-> "Combined", selector1 |-> selector1,
                    combinator |-> combinator, selector2 |-> selector2]),
         Len(h) + 1)

\* `this` of the arrow function is the module's `this`, which has no
\* `element` property.
thisElement == Undefined

\* stringify of the facade itself: `${this.element.stringify()}`.
builder_stringify(h) == CallStringify(h, thisElement)

\* ---------------------------------------------------------------- state
Call(op, self, kind, val, r) ==
  [op |-> op, self |-> self, kind |-> kind, val |-> val,
   ret |-> r.ret, out |-> r.out, err |-> r.err]

Init ==
  /\ heap = <<>>
  /\ last = Call("init", Undefined, "", "", Return(<<>>, Undefined))

\* A call whose construction fits the bound.
Do(op, self, kind, val, r) ==
  /\ Len(r.heap) <= MaxObjs
  /\ heap' = r.heap
  /\ last' = Call(op, self, kind, val, r)

\* A call that always constructs an object.
New(op, kind, val, r) ==
  /\ Len(heap) < MaxObjs
  /\ heap' = r.heap
  /\ last' = Call(op, Undefined, kind, val, r)

Fragments(h) == {i \in DOMAIN h : h[i].cls = "MyElement"}

StartElement == \E v \in Values : New("start", "elem", v, builder_element(heap, v))
StartId == \E v \in Values : New("start", "id", v, builder_id(heap, v))
StartClass == \E v \in Values : New("start", "class", v, builder_class(heap, v))
StartAttr == \E v \in Values : New("start", "attr", v, builder_attr(heap, v))
StartPseudoClass == \E v \in Values : New("start", "pseudoClass", v, builder_pseudoClass(heap, v))
StartPseudoElement == \E v \in Values : New("start", "pseudoElement", v, builder_pseudoElement(heap, v))

ChainElement == \E f \in Fragments(heap), v \in Values :
  Do("chain", f, "elem", v, MyElement_element(heap, f, v))
ChainId == \E f \in Fragments(heap), v \in Values :
  Do("chain", f, "id", v, MyElement_id(heap, f, v))
ChainClass == \E f \in Fragments(heap), v \in Values :
  Do("chain", f, "class", v, MyElement_class(heap, f, v))
ChainAttr == \E f \in Fragments(heap), v \in Values :
  Do("chain", f, "attr", v, MyElement_attr(heap, f, v))
ChainPseudoClass == \E f \in Fragments(heap), v \in Values :
  Do("chain", f, "pseudoClass", v, MyElement_pseudoClass(heap, f, v))
ChainPseudoElement == \E f \in Fragments(heap), v \in Values :
  Do("chain", f, "pseudoElement", v, MyElement_pseudoElement(heap, f, v))

Combine == \E c \in Combinators, s1 \in DOMAIN heap, s2 \in DOMAIN heap :
  New("combine", "", c, builder_combine(heap, s1, c, s2))

Stringify == \E x \in DOMAIN heap :
  LET r == CallStringify(heap, x)
  IN Do("stringify", x, "", "", [heap |-> heap, ret |-> Undefined, out |-> r.out, err |-> r.err])

BuilderStringify ==
  LET r == builder_stringify(heap)
  IN Do("builder.stringify", Undefined, "", "", [heap |-> heap, ret |-> Undefined, out |-> r.out, err |-> r.err])

Next ==
  \/ StartElement \/ StartId \/ StartClass \/ StartAttr
  \/ StartPseudoClass \/ StartPseudoElement
  \/ ChainElement \/ ChainId \/ ChainClass \/ ChainAttr
  \/ ChainPseudoClass \/ ChainPseudoElement
  \/ Combine \/ Stringify \/ BuilderStringify

Spec == Init /\ [][Next]_vars

\* ---------------------------------------------------------------- properties
\* Order rank of a kind: element < id < class < attribute < pseudo-class <
\* pseudo-element.
Rank(kind) ==
  CASE kind = "elem" -> 1
    [] kind = "id" -> 2
    [] kind = "class" -> 3
    [] kind = "attr" -> 4
    [] kind = "pseudoClass" -> 5
    [] kind = "pseudoElement" -> 6

NonRepeatable == {"elem", "id", "pseudoElement"}

Combined(h) == {i \in DOMAIN h : h[i].cls = "Combined"}

\* The fragments of f's chain, from the first one to f.
RECURSIVE ChainOf(_, _)
ChainOf(h, f) ==
  IF h[f].parent = Undefined THEN <<f>>
  ELSE Append(ChainOf(h, h[f].parent), f)

KindCount(h, f, kind) ==
  Cardinality({n \in DOMAIN ChainOf(h, f) : h[ChainOf(h, f)[n]].type = kind})

\* What one fragment contributes to the selector text.
OwnRendering(kind, value) ==
  CASE kind = "elem" -> value
    [] kind = "id" -> "#" \o value
    [] kind = "class" -> "." \o value
    [] kind = "attr" -> "[" \o value \o "]"
    [] kind = "pseudoClass" -> ":" \o value
    [] kind = "pseudoElement" -> "::" \o value

RECURSIVE Concat(_, _)
Concat(h, chain) ==
  IF chain = <<>> THEN ""
  ELSE OwnRendering(h[Head(chain)].type, h[Head(chain)].value) \o Concat(h, Tail(chain))

\* The selector text of an object: a chain's fragments concatenated, the two
\* sides of a combined selector around " <combinator> ".
RECURSIVE Rendering(_, _)
Rendering(h, x) ==
  IF h[x].cls = "MyElement" THEN Concat(h, ChainOf(h, x))
  ELSE Rendering(h, h[x].selector1) \o " " \o h[x].combinator \o " "
         \o Rendering(h, h[x].selector2)

\* C1: a chaining call of kind k on fragment f throws the duplicate message
\* exactly when k is non-repeatable and f is of kind k, otherwise the order
\* message exactly when f's rank exceeds k's, otherwise it returns a new
\* fragment of kind k whose parent is f.
C1_ChainingOutcome ==
  last.op = "chain" =>
    LET sk == heap[last.self].type
    IN IF last.kind \in NonRepeatable /\ sk = last.kind THEN last.err = validError
       ELSE IF Rank(sk) > Rank(last.kind) THEN last.err = partsError
       ELSE /\ last.err = NoError
            /\ last.ret = Len(heap)
            /\ heap[last.ret].cls = "MyElement"
            /\ heap[last.ret].type = last.kind
            /\ heap[last.ret].value = last.val
            /\ heap[last.ret].parent = last.self

\* .id(...) called on a class fragment was rejected as out of order.
C1_Witness ==
  /\ last.op = "chain" /\ last.kind = "id"
  /\ heap[last.self].type = "class"
  /\ last.err = partsError

ChainHasElement(h, f) == KindCount(h, f, "elem") > 0

\* C2 as stated: .element(...) on a fragment whose chain contains an element
\* fragment anywhere throws the duplicate message.
C2_DuplicateAnywhere ==
  (last.op = "chain" /\ last.kind = "elem" /\ ChainHasElement(heap, last.self))
    => last.err = validError

\* C2 amended: .element(...) on a fragment whose chain contains an element
\* fragment throws the duplicate message when the fragment itself is the
\* element fragment and the order message when it is a later fragment.
C2_DuplicateOnlyOnElement ==
  (last.op = "chain" /\ last.kind = "elem" /\ ChainHasElement(heap, last.self))
    => IF heap[last.self].type = "elem" THEN last.err = validError
       ELSE last.err = partsError

\* .element(...) called on a later fragment of a chain that starts with an
\* element.
C2_Witness ==
  /\ last.op = "chain" /\ last.kind = "elem"
  /\ ChainHasElement(heap, last.self)
  /\ heap[last.self].type # "elem"
  /\ last.err = partsError

\* C3: stringify() of a fragment returns the renderings of the fragments of
\* its chain, first to last, concatenated without separators.
C3_StringifyConcatenates ==
  (last.op = "stringify" /\ last.self \in Fragments(heap)) =>
    (last.err = NoError /\ last.out = Concat(heap, ChainOf(heap, last.self)))

\* stringify() was called on the last fragment of a chain of three.
C3_Witness ==
  /\ last.op = "stringify" /\ last.self \in Fragments(heap)
  /\ Len(ChainOf(heap, last.self)) >= 3
  /\ last.out = "a#a.a"

\* C4: a chain holds at most one element, one id and one pseudo-element
\* fragment.
C4_AtMostOneNonRepeatable ==
  \A f \in Fragments(heap), k \in NonRepeatable : KindCount(heap, f, k) <= 1

\* A chain with one id fragment followed by two class fragments.
C4_Witness ==
  \E f \in Fragments(heap) :
    KindCount(heap, f, "id") = 1 /\ KindCount(heap, f, "class") = 2

\* C5: every fragment with a predecessor has a rank at least its
\* predecessor's, and the same rank only for class, attribute, pseudo-class.
C5_RanksNonDecreasing ==
  \A f \in Fragments(heap) :
    heap[f].parent # Undefined =>
      LET pk == heap[heap[f].parent].type
          k == heap[f].type
      IN /\ Rank(pk) <= Rank(k)
         /\ Rank(pk) = Rank(k) => k \notin NonRepeatable

\* A chain that rises in rank and then repeats a kind.
C5_Witness ==
  \E f \in Fragments(heap) :
    /\ heap[f].parent # Undefined
    /\ heap[heap[f].parent].type = heap[f].type
    /\ heap[heap[f].parent].parent # Undefined
    /\ Rank(heap[heap[heap[f].parent].parent].type) < Rank(heap[f].type)

\* C6: stringify() of combine(left, c, right) returns left's text, a space,
\* c unchanged, a space, right's text; with c = " " the sides are three spaces
\* apart; nested combines render their operands left to right.
C6_CombineRendering ==
  (last.op = "stringify" /\ last.self \in Combined(heap)) =>
    LET c == heap[last.self]
    IN /\ last.err = NoError
       /\ last.out = Rendering(heap, c.selector1) \o " " \o c.combinator \o " "
                       \o Rendering(heap, c.selector2)
       /\ c.combinator = " " =>
            last.out = Rendering(heap, c.selector1) \o "   "
                         \o Rendering(heap, c.selector2)

\* stringify() was called on a nested combine joined by a plain space.
C6_Witness ==
  /\ last.op = "stringify" /\ last.self \in Combined(heap)
  /\ heap[last.self].combinator = " "
  /\ heap[last.self].selector2 \in Combined(heap)
  /\ heap[heap[last.self].selector2].combinator = "+"
  /\ last.out = "a   a + a"

\* C7: the two ordering/uniqueness errors are the only failures, and only
\* chaining calls raise them: starts, combine and every stringify succeed.
C7_OnlyChainingFails ==
  /\ last.err \in {NoError, validError, partsError}
  /\ last.op # "chain" => last.err = NoError

\* The fields the builder sets once.
Fixed(o) == [o EXCEPT !.child = EmptyObject]

\* C8 as stated: no call changes any field of an existing object.
C8_NothingMutated ==
  [][\A i \in DOMAIN heap : i \in DOMAIN heap' /\ heap'[i] = heap[i]]_vars

\* C8 amended: no call changes kind, value or predecessor link of an existing
\* fragment, nor a combined selector; the successor link of a fragment changes
\* only in a successful chaining call made on it, to the fragment returned.
\* (A step that leaves the heap as it was changes no object.)
C8_OnlyChildMutated ==
  [][heap' # heap => \A i \in DOMAIN heap :
       /\ i \in DOMAIN heap'
       /\ i \in Combined(heap) => heap'[i] = heap[i]
       /\ i \in Fragments(heap) =>
            /\ Fixed(heap'[i]) = Fixed(heap[i])
            /\ heap'[i].child # heap[i].child =>
                 /\ last'.op = "chain" /\ last'.self = i /\ last'.err = NoError
                 /\ heap'[i].child = last'.ret]_vars

\* A fragment whose successor link was set by a chaining call, twice over.
C8_Witness ==
  /\ last.op = "chain" /\ last.err = NoError
  /\ heap[last.self].child = last.ret
  /\ \E g \in Fragments(heap) : g # last.ret /\ heap[g].parent = last.self

\* C9: no call changes what stringify() returns for an existing fragment or
\* combined selector. (A step that leaves the heap as it was changes no
\* rendering.)
C9_RenderingFixed ==
  [][heap' # heap => \A x \in DOMAIN heap :
       x \in DOMAIN heap' /\ CallStringify(heap', x) = CallStringify(heap, x)]_vars

\* Two chains branched from one fragment, which is then rendered.
C9_Witness ==
  /\ last.op = "stringify" /\ last.self \in Fragments(heap)
  /\ \E g1, g2 \in Fragments(heap) :
       /\ g1 # g2
       /\ heap[g1].parent = last.self /\ heap[g2].parent = last.self
       /\ heap[g1].type # heap[g2].type
  /\ last.out = Rendering(heap, last.self)

\* C10: a chaining call that throws constructs nothing and leaves every
\* field of every object as it was; what the fragment renders and which calls
\* it accepts are computed from those fields alone, so they stay as they were.
C10_RejectedCallNoEffect ==
  [][(last'.op = "chain" /\ last'.err # NoError) =>
       /\ Len(heap') = Len(heap)
       /\ heap'[last'.self] = heap[last'.self]
       /\ heap' = heap]_vars

\* A rejected call on a fragment that had already been chained from.
C10_Witness ==
  /\ last.op = "chain" /\ last.err \in {validError, partsError}
  /\ heap[last.self].child \in Fragments(heap)

====
